---- MODULE Spec2Model ----
(***************************************************************************)
(* Backend of Transportes Manolo (src/main.py): the vehicle store          *)
(* operations agregar_vehiculo / eliminar_vehiculo and the quote-request   *)
(* workflow agregar_cotizacion -> enviar_correo_cotizacion.                *)
(*                                                                         *)
(* One quote request is tracked at a time, step by step (each blocking     *)
(* call of the handler is one step), while vehicle creations and           *)
(* deletions of other requests interleave with it freely.  Quote requests  *)
(* only read the store, so further concurrent quote requests cannot        *)
(* change what the tracked one observes.  The handlers enviar_mensaje,      *)
(* listar_vehiculos and test_email are not modelled.  The placeholder dash *)
(* of the comment line is written "-".                                     *)
(***************************************************************************)
EXTENDS Integers, Sequences, FiniteSets, TLC

\* ---------------------------------------------------------------- bounds
\* Vehicle ids the store can hand out are 1..MaxId.
MaxId == 2

\* ------------------------------------------------------- Python values
\* Python's None for optional scalars (str | None).
None == "<None>"
\* An optional object that is absent (no row, no dict, no message yet).
Nada == <<>>
\* bool(x) is False for None and for the empty string.
Falsy(x) == x = None \/ x = ""
\* str(x) as an f-string renders it: None is rendered as the text "None".
PyStr(x) == IF x = None THEN "None" ELSE x
\* dict.get(key, default): the default is used only when the key is missing.
DictGet(d, k, default) == IF k \in DOMAIN d THEN d[k] ELSE default

\* ------------------------------------------------------------- inputs
Ids == 1..MaxId
\* Values of CotizacionRequest.comentario (Optional[str] = None).
Comentarios == {None, "", "hola"}
\* secure_url values returned by a successful upload.
Urls == {"https://res/img"}
\* Values an environment variable can have after os.getenv.
EnvVals == {None, "", "set"}
\* What happens to the photo of an add-vehicle request.
Subidas == {"sin_foto", "ok", "error"}

\* ----------------------------------------------------------- variables
VARIABLES
    GMAIL_USER,          \* module global, read once at start-up
    GMAIL_APP_PASSWORD,  \* module global, read once at start-up
    vehiculos,           \* table "vehiculos": id -> row
    adm,                 \* response of the last add/delete vehicle request
    pc,                  \* position of the tracked quote request
    cotizacion,          \* its CotizacionRequest body (Nada when idle)
    vehiculo,            \* row returned by the lookup (Nada if none)
    datos_correo,        \* the payload dict (Nada until composed)
    html,                \* the rendered message (Nada until built)
    fases,               \* orchestrator phases entered, in order
    etapas,              \* transport stages attempted, in order
    fallo,               \* stage at which the dispatch failed, or None
    llamadas,            \* calls of enviar_correo_cotizacion
    conexiones,          \* SMTP connections opened
    envios,              \* sendmail calls issued
    resultado,           \* return value of enviar_correo_cotizacion
    respuesta            \* HTTP response of the quote request

vars == <<GMAIL_USER, GMAIL_APP_PASSWORD, vehiculos, adm, pc, cotizacion,
          vehiculo, datos_correo, html, fases, etapas, fallo, llamadas,
          conexiones, envios, resultado, respuesta>>

config == <<GMAIL_USER, GMAIL_APP_PASSWORD>>
peticion == <<pc, cotizacion, vehiculo, datos_correo, html, fases, etapas,
              fallo, llamadas, conexiones, envios, resultado, respuesta>>

\* --------------------------------------------------------- responses
SinRespuesta == [status |-> 0, mensaje |-> ""]
NoEncontrado == [status |-> 404, mensaje |-> "Vehiculo no encontrado"]
CotizacionOk == [status |-> 200, mensaje |-> "Cotizacion enviada correctamente"]
ErrorInterno == [status |-> 500, mensaje |-> "Internal Server Error"]

\* ------------------------------------------------------ vehicle store
\* A row of models.Vehiculo without its primary key.
Vehiculo(foto) ==
    [marca |-> "Toyota", modelo |-> "Hiace", placa |-> "TEST-123",
     anio |-> 2023, tipo |-> "Van", capacidad |-> "12",
     observaciones |-> None, foto |-> foto]

\* Variant: the filter is lost, first() returns whatever row comes first.
BuscarSinFiltro(tabla, id) ==
    IF DOMAIN tabla # {}
    THEN tabla[CHOOSE i \in DOMAIN tabla : \A j \in DOMAIN tabla : i <= j]
    ELSE Nada

\* db.query(Vehiculo).filter(Vehiculo.id == id).first()
BuscarVehiculo(tabla, id) ==
    IF id \in DOMAIN tabla THEN tabla[id] ELSE Nada

\* Variant: the delete is never committed.
BorrarSinCommit(tabla, id) == tabla

\* db.delete(row); db.commit()
BorrarVehiculo(tabla, id) ==
    [i \in DOMAIN tabla \ {id} |-> tabla[i]]

\* db.add(row); db.commit(); db.refresh(row)
InsertarVehiculo(tabla, id, fila) ==
    [i \in DOMAIN tabla \cup {id} |-> IF i = id THEN fila ELSE tabla[i]]

\* Variant: the upload is not wrapped in try/except.
SubidaSinTry(subida, url) ==
    [excepcion |-> subida = "error",
     foto_url  |-> IF subida = "ok" THEN url ELSE None]

\* The upload block of agregar_vehiculo: what foto_url ends up as, and
\* whether an exception leaves the block.
ResultadoSubida(subida, url) ==
    [excepcion |-> FALSE,
     foto_url  |-> IF subida = "ok" THEN url ELSE None]

agregar_vehiculo(id, subida, url) ==
    /\ id \notin DOMAIN vehiculos
    /\ LET r == ResultadoSubida(subida, url) IN
       IF r.excepcion
       THEN /\ adm' = [op |-> "agregar", id |-> 0, status |-> 500,
                       subida |-> subida, foto_url |-> None]
            /\ UNCHANGED vehiculos
       ELSE /\ vehiculos' = InsertarVehiculo(vehiculos, id, Vehiculo(r.foto_url))
            /\ adm' = [op |-> "agregar", id |-> id, status |-> 200,
                       subida |-> subida, foto_url |-> r.foto_url]
    /\ UNCHANGED <<config, peticion>>

eliminar_vehiculo(id) ==
    /\ IF BuscarVehiculo(vehiculos, id) = Nada
       THEN /\ adm' = [op |-> "eliminar", id |-> id, status |-> 404,
                       subida |-> "sin_foto", foto_url |-> None]
            /\ UNCHANGED vehiculos
       ELSE /\ vehiculos' = BorrarVehiculo(vehiculos, id)
            /\ adm' = [op |-> "eliminar", id |-> id, status |-> 200,
                       subida |-> "sin_foto", foto_url |-> None]
    /\ UNCHANGED <<config, peticion>>

\* ------------------------------------------------ quote-request input
\* CotizacionRequest.dict(): every declared field is a key, an omitted
\* comentario is present with the value None.
CotizacionRequest(id, comentario) ==
    [vehiculo_id |-> id, nombre |-> "PRUEBA TEST", telefono |-> "1234567890",
     fecha |-> "2025-10-17", comentario |-> comentario]

\* datos_correo = cotizacion.dict(); datos_correo.update({...})
ComponerDatos(c, v) ==
    [vehiculo_id |-> c.vehiculo_id, nombre |-> c.nombre,
     telefono |-> c.telefono, fecha |-> c.fecha, comentario |-> c.comentario,
     marca |-> v.marca, modelo |-> v.modelo, anio |-> v.anio,
     placa |-> v.placa, tipo |-> v.tipo, foto_url |-> v.foto]

\* ------------------------------------------------------ the dispatcher
\* Variant: only the sender identity is checked.
SoloUsuarioFalta(user, password) == Falsy(user)

\* if not GMAIL_USER or not GMAIL_APP_PASSWORD
CredencialesFaltan(user, password) == Falsy(user) \/ Falsy(password)

\* foto_html: the <img> tag if datos.get("foto_url") is truthy, else the
\* fixed paragraph.
FotoHtml(datos) ==
    IF ~Falsy(DictGet(datos, "foto_url", None))
    THEN [tag |-> "img", valor |-> datos["foto_url"]]
    ELSE [tag |-> "p", valor |-> "Sin foto disponible"]

\* The text the f-string puts after "Comentario:".
ComentarioHtml(datos) == PyStr(DictGet(datos, "comentario", "-"))

\* The html body: one entry per interpolated field.
RenderHtml(datos) ==
    [nombre |-> PyStr(datos["nombre"]), telefono |-> PyStr(datos["telefono"]),
     fecha |-> PyStr(datos["fecha"]), comentario |-> ComentarioHtml(datos),
     marca |-> PyStr(datos["marca"]), modelo |-> PyStr(datos["modelo"]),
     anio |-> datos["anio"], placa |-> PyStr(datos["placa"]),
     tipo |-> PyStr(datos["tipo"]), foto_html |-> FotoHtml(datos),
     vehiculo_id |-> datos["vehiculo_id"]]

\* Exceptions a transport stage can end with.  "quit" is the QUIT command
\* the with-statement issues when its block is left by "return True".
Errores(etapa) ==
    CASE etapa = "connect"  -> {"timeout", "SMTPException", "Exception"}
      [] etapa = "starttls" -> {"timeout", "SMTPException", "Exception"}
      [] etapa = "login"    -> {"SMTPAuthenticationError", "SMTPException"}
      [] etapa = "sendmail" -> {"SMTPException"}
      [] etapa = "quit"     -> {"SMTPException"}

\* Variant: the final "except Exception" clause is missing.
CapturaSinGeneral(error) ==
    CASE error = "SMTPAuthenticationError" -> "False"
      [] error = "timeout"                 -> "False"
      [] error = "SMTPException"           -> "False"
      [] OTHER                             -> "raise"

\* Variant: only the authentication error is handled.
CapturaSoloAuth(error) ==
    CASE error = "SMTPAuthenticationError" -> "False"
      [] OTHER                             -> "raise"

\* The except clauses: what enviar_correo_cotizacion does with an
\* exception ("raise" would let it reach the caller).
Captura(error) ==
    CASE error = "SMTPAuthenticationError" -> "False"
      [] error = "timeout"                 -> "False"
      [] error = "SMTPException"           -> "False"
      [] OTHER                             -> "False"

\* Variant: a failed dispatch is retried from the connection.
ReintentarTrasFallo(etapa) == "connect"

\* Where control goes once an except clause has run: back to the caller.
DespuesDeFallo(etapa) == "retorno"

\* Statement order inside the with-block.
SiguienteEtapa(etapa) ==
    CASE etapa = "connect"  -> "starttls"
      [] etapa = "starttls" -> "login"
      [] etapa = "login"    -> "sendmail"
      [] etapa = "sendmail" -> "quit"
      [] etapa = "quit"     -> "retorno"

\* One transport stage: it is attempted, and either completes or raises.
PasoTransporte(etapa) ==
    /\ pc = etapa
    /\ etapas' = IF etapa = "quit" THEN etapas ELSE Append(etapas, etapa)
    /\ conexiones' = IF etapa = "connect" THEN conexiones + 1 ELSE conexiones
    /\ envios' = IF etapa = "sendmail" THEN envios + 1 ELSE envios
    /\ \/ /\ pc' = SiguienteEtapa(etapa)
          /\ resultado' = IF etapa = "quit" THEN "True" ELSE resultado
          /\ UNCHANGED <<fallo, respuesta>>
       \/ \E error \in Errores(etapa) :
            /\ fallo' = etapa
            /\ IF Captura(error) = "raise"
               THEN /\ pc' = "fin"
                    /\ respuesta' = ErrorInterno
                    /\ UNCHANGED resultado
               ELSE /\ pc' = DespuesDeFallo(etapa)
                    /\ resultado' = Captura(error)
                    /\ UNCHANGED respuesta
    /\ UNCHANGED <<config, vehiculos, adm, cotizacion, vehiculo, datos_correo,
                   html, fases, llamadas>>

\* smtplib.SMTP("smtp.gmail.com", 587, timeout=15)
smtp_connect == PasoTransporte("connect")
\* server.starttls()
smtp_starttls == PasoTransporte("starttls")
\* server.login(GMAIL_USER, GMAIL_APP_PASSWORD)
smtp_login == PasoTransporte("login")
\* server.sendmail(GMAIL_USER, GMAIL_USER, msg.as_string())
smtp_sendmail == PasoTransporte("sendmail")
\* return True, leaving the with-block (QUIT and close)
smtp_quit == PasoTransporte("quit")

\* The call of enviar_correo_cotizacion up to the connection: credential
\* check and construction of the message.
enviar_correo_cotizacion ==
    /\ pc = "despachar"
    /\ llamadas' = llamadas + 1
    /\ fases' = Append(fases, "DispatchAttempted")
    /\ IF CredencialesFaltan(GMAIL_USER, GMAIL_APP_PASSWORD)
       THEN /\ resultado' = "False"
            /\ fallo' = "config"
            /\ pc' = "retorno"
            /\ UNCHANGED html
       ELSE /\ html' = RenderHtml(datos_correo)
            /\ pc' = "connect"
            /\ UNCHANGED <<resultado, fallo>>
    /\ UNCHANGED <<config, vehiculos, adm, cotizacion, vehiculo, datos_correo,
                   etapas, conexiones, envios, respuesta>>

\* ------------------------------------------------- agregar_cotizacion
\* A POST /cotizaciones/agregar/ arrives.
Recibir(id, comentario) ==
    /\ pc \in {"idle", "fin"}
    /\ pc' = "buscar"
    /\ cotizacion' = CotizacionRequest(id, comentario)
    /\ vehiculo' = Nada
    /\ datos_correo' = Nada
    /\ html' = Nada
    /\ fases' = <<"Received">>
    /\ etapas' = <<>>
    /\ fallo' = None
    /\ llamadas' = 0
    /\ conexiones' = 0
    /\ envios' = 0
    /\ resultado' = None
    /\ respuesta' = SinRespuesta
    /\ UNCHANGED <<config, vehiculos, adm>>

\* vehiculo = db.query(...).first(); if not vehiculo: raise 404
Buscar ==
    /\ pc = "buscar"
    /\ LET v == BuscarVehiculo(vehiculos, cotizacion.vehiculo_id) IN
       IF v = Nada
       THEN /\ respuesta' = NoEncontrado
            /\ pc' = "fin"
            /\ UNCHANGED <<vehiculo, fases>>
       ELSE /\ vehiculo' = v
            /\ pc' = "componer"
            /\ fases' = Append(fases, "VehicleResolved")
            /\ UNCHANGED respuesta
    /\ UNCHANGED <<config, vehiculos, adm, cotizacion, datos_correo, html,
                   etapas, fallo, llamadas, conexiones, envios, resultado>>

\* foto_url = vehiculo.foto; datos_correo = ...; datos_correo.update(...)
Componer ==
    /\ pc = "componer"
    /\ datos_correo' = ComponerDatos(cotizacion, vehiculo)
    /\ fases' = Append(fases, "PayloadComposed")
    /\ pc' = "despachar"
    /\ UNCHANGED <<config, vehiculos, adm, cotizacion, vehiculo, html, etapas,
                   fallo, llamadas, conexiones, envios, resultado, respuesta>>

\* return {"mensaje": ..., "status": "success"}
Responder ==
    /\ pc = "retorno"
    /\ respuesta' = CotizacionOk
    /\ fases' = Append(fases, "Done")
    /\ pc' = "fin"
    /\ UNCHANGED <<config, vehiculos, adm, cotizacion, vehiculo, datos_correo,
                   html, etapas, fallo, llamadas, conexiones, envios,
                   resultado>>

\* Every step of the tracked quote request after its arrival.
PasoCotizacion ==
    \/ Buscar
    \/ Componer
    \/ enviar_correo_cotizacion
    \/ smtp_connect
    \/ smtp_starttls
    \/ smtp_login
    \/ smtp_sendmail
    \/ smtp_quit
    \/ Responder

\* ------------------------------------------------------------- Init
Init ==
    /\ GMAIL_USER \in EnvVals
    /\ GMAIL_APP_PASSWORD \in EnvVals
    /\ vehiculos = <<>>
    /\ adm = [op |-> "ninguna", id |-> 0, status |-> 0,
              subida |-> "sin_foto", foto_url |-> None]
    /\ pc = "idle"
    /\ cotizacion = Nada
    /\ vehiculo = Nada
    /\ datos_correo = Nada
    /\ html = Nada
    /\ fases = <<>>
    /\ etapas = <<>>
    /\ fallo = None
    /\ llamadas = 0
    /\ conexiones = 0
    /\ envios = 0
    /\ resultado = None
    /\ respuesta = SinRespuesta

Next ==
    \/ \E id \in Ids, s \in Subidas, u \in Urls : agregar_vehiculo(id, s, u)
    \/ \E id \in Ids : eliminar_vehiculo(id)
    \/ \E id \in Ids, c \in Comentarios : Recibir(id, c)
    \/ Buscar
    \/ Componer
    \/ enviar_correo_cotizacion
    \/ smtp_connect
    \/ smtp_starttls
    \/ smtp_login
    \/ smtp_sendmail
    \/ smtp_quit
    \/ Responder

Spec == Init /\ [][Next]_vars

\* The handler's thread keeps running and every transport call returns,
\* raises or hits the 15 s timeout.
FairSpec == Spec /\ WF_vars(PasoCotizacion)

\* ============================================================ claims
IsPrefix(s, t) == Len(s) <= Len(t) /\ \A i \in 1..Len(s) : s[i] = t[i]

FasesCompletas ==
    <<"Received", "VehicleResolved", "PayloadComposed", "DispatchAttempted",
      "Done">>

EtapasTransporte == <<"connect", "starttls", "login", "sendmail">>

EnDespacho == pc \in {"connect", "starttls", "login", "sendmail", "quit"}

\* C1: a quote request whose vehicle id is not in the store when it is
\* looked up ends with 404, and a request answered 404 has made no call of
\* the dispatcher, composed no payload or message and opened no connection.
C1_NoEncontradoSinDespacho ==
    /\ [][(pc = "buscar" /\ pc' # "buscar"
             /\ cotizacion.vehiculo_id \notin DOMAIN vehiculos)
          => (respuesta' = NoEncontrado /\ pc' = "fin")]_vars
    /\ [](respuesta.status = 404
          => /\ llamadas = 0 /\ conexiones = 0 /\ envios = 0
             /\ datos_correo = Nada /\ html = Nada /\ etapas = <<>>)

C1_Witness ==
    /\ pc = "fin" /\ respuesta = NoEncontrado
    /\ DOMAIN vehiculos # {}
    /\ cotizacion.vehiculo_id \notin DOMAIN vehiculos

\* C2: once the vehicle of a quote request was found, the response is never
\* an error: it is pending or the fixed success response, and the finished
\* request carries exactly the success response whatever the dispatch did.
C2_RespuestaExitosa ==
    /\ vehiculo # Nada => respuesta \in {SinRespuesta, CotizacionOk}
    /\ (vehiculo # Nada /\ pc = "fin") => respuesta = CotizacionOk

C2_Witness ==
    /\ pc = "fin" /\ respuesta = CotizacionOk
    /\ resultado = "False" /\ fallo = "connect"

\* C3: the rendering shows the placeholder for an absent comment and for an
\* absent photo, and no rendered field is empty.
C3_RenderSinHuecos ==
    html # Nada =>
        /\ datos_correo.comentario = None => html.comentario = "-"
        /\ datos_correo.foto_url = None
             => html.foto_html = [tag |-> "p", valor |-> "Sin foto disponible"]
        /\ \A k \in {"nombre", "telefono", "fecha", "comentario", "marca",
                     "modelo", "placa", "tipo"} : html[k] # ""

\* C4: the response is not held open while the dispatch runs: whenever a
\* transport stage of the dispatch is still ahead, the caller already has
\* its answer.
C4_DespachoFueraDelCamino ==
    EnDespacho => respuesta # SinRespuesta

\* C5: deleting an id that is not in the store answers 404 and leaves the
\* store unchanged; deleting an id in the store answers 200 and removes that
\* row and no other; an id enters the store only through a creation with
\* that id, and until then a quote lookup of it answers 404.
C5_Eliminar ==
    /\ [][(adm' # adm /\ adm'.op = "eliminar")
          => IF adm'.id \in DOMAIN vehiculos
             THEN /\ adm'.status = 200
                  /\ DOMAIN vehiculos' = DOMAIN vehiculos \ {adm'.id}
                  /\ \A i \in DOMAIN vehiculos' : vehiculos'[i] = vehiculos[i]
             ELSE /\ adm'.status = 404
                  /\ vehiculos' = vehiculos]_vars
    /\ [][\A i \in Ids :
            (i \notin DOMAIN vehiculos /\ i \in DOMAIN vehiculos')
            => (adm'.op = "agregar" /\ adm'.id = i)]_vars
    /\ [][(pc = "buscar" /\ pc' # "buscar"
             /\ cotizacion.vehiculo_id \notin DOMAIN vehiculos)
          => respuesta'.status = 404]_vars

C5_Witness ==
    /\ adm.op = "eliminar" /\ adm.status = 200
    /\ adm.id \notin DOMAIN vehiculos
    /\ DOMAIN vehiculos # {}
    /\ pc = "fin" /\ respuesta.status = 404
    /\ cotizacion.vehiculo_id = adm.id

\* C6: every add-vehicle request answers 200 and puts a new row in the
\* store; the row's photo is unset when no photo was supplied or the upload
\* failed, and is otherwise the URL the upload returned.
C6_AgregarSiempreCrea ==
    /\ [](adm.op = "agregar"
          => /\ adm.status = 200
             /\ adm.subida # "ok" => adm.foto_url = None
             /\ adm.foto_url # None => adm.foto_url \in Urls)
    /\ [][(adm' # adm /\ adm'.op = "agregar")
          => /\ adm'.id \notin DOMAIN vehiculos
             /\ DOMAIN vehiculos' = DOMAIN vehiculos \cup {adm'.id}
             /\ vehiculos'[adm'.id].foto = adm'.foto_url
             /\ \A i \in DOMAIN vehiculos : vehiculos'[i] = vehiculos[i]]_vars

C6_Witness ==
    /\ adm.op = "agregar" /\ adm.subida = "error" /\ adm.status = 200
    /\ adm.id \in DOMAIN vehiculos
    /\ vehiculos[adm.id].foto = None

\* C7: with the sender identity or the password missing, a dispatch returns
\* False without any transport stage: no connection, no login, no send.
C7_SinCredencialesSinTransporte ==
    ((GMAIL_USER \in {None, ""} \/ GMAIL_APP_PASSWORD \in {None, ""})
       /\ llamadas > 0)
    => /\ resultado = "False" /\ fallo = "config"
       /\ etapas = <<>> /\ conexiones = 0 /\ envios = 0 /\ html = Nada
       /\ ~EnDespacho

C7_Witness ==
    /\ GMAIL_USER = "set" /\ GMAIL_APP_PASSWORD = None
    /\ llamadas = 1 /\ pc = "fin" /\ resultado = "False"

\* C8: a quote request calls the dispatcher at most once, a dispatch opens
\* at most one connection and issues at most one send, and after a failure
\* nothing more is attempted for that request.
C8_SinReintento ==
    /\ [](llamadas <= 1 /\ conexiones <= 1 /\ envios <= 1)
    /\ [][(fallo # None /\ pc' # "buscar")
          => /\ llamadas' = llamadas /\ conexiones' = conexiones
             /\ envios' = envios /\ etapas' = etapas]_vars

C8_Witness ==
    /\ pc = "fin" /\ fallo = "login"
    /\ conexiones = 1 /\ envios = 0 /\ llamadas = 1

\* C9: the phases of a quote request are entered in the order Received,
\* VehicleResolved, PayloadComposed, DispatchAttempted, Done; a finished
\* request either got 404 right after Received or went through all of them;
\* every request in flight eventually finishes, and one whose dispatch was
\* attempted eventually finishes in Done with the success response.
C9_TerminaSiempre ==
    /\ [](IsPrefix(fases, FasesCompletas))
    /\ [](pc = "fin" => \/ fases = <<"Received">> /\ respuesta = NoEncontrado
                        \/ fases = FasesCompletas /\ respuesta = CotizacionOk)
    /\ (pc \notin {"idle", "fin"}) ~> (pc = "fin")
    /\ (pc # "fin" /\ llamadas > 0)
         ~> (pc = "fin" /\ fases = FasesCompletas /\ respuesta = CotizacionOk)

C9_Witness ==
    /\ pc = "fin" /\ fases = FasesCompletas /\ resultado = "True"

\* C10: the transport stages are attempted in the order connect, starttls,
\* login, sendmail; a failed stage is the last one attempted; and the
\* dispatch returns True exactly when sendmail completed without error.
C10_EtapasEnOrden ==
    /\ IsPrefix(etapas, EtapasTransporte)
    /\ fallo \in {"connect", "starttls", "login", "sendmail"}
         => etapas[Len(etapas)] = fallo
    /\ resultado # None
         => (resultado = "True"
               <=> (Len(etapas) = 4 /\ fallo # "sendmail"))
====
